---- MODULE Spec2Model ----
(***************************************************************************)
(* Model of the devtool_mcp compatibility shim                             *)
(* (python/src/devtool_mcp/__init__.py).                                   *)
(*                                                                         *)
(* The shim has two pieces of code: the module body, run when the package  *)
(* is imported and not yet in sys.modules, and main(), the console entry   *)
(* point.  Both are straight-line statement lists; the model keeps the     *)
(* lists as data (module_body, main_body) and a position in each (ipc,     *)
(* mpc).  The host is the rest of the Python process: the warning filter   *)
(* for DeprecationWarning, the successor package agnt and its attributes.  *)
(* The process is single threaded, so the host acts only while neither     *)
(* piece of shim code is running.  Writes to sys.stderr are taken to       *)
(* succeed.                                                                *)
(***************************************************************************)
EXTENDS Integers, Sequences, FiniteSets, TLC

\* ---------------------------------------------------------------- bounds
MaxRebinds == 2       \* rebindings of the successor's attributes by the host
MaxImports == 2       \* import statements naming the shim
MaxInvocations == 2   \* calls of main()

\* ------------------------------------------------------------- vocabulary
\* the names of "from agnt import (...)"
Names == {"__version__", "get_binary_path", "run"}

\* the successor's attributes the shim ever reads
AgntNames == Names \cup {"main"}

\* the objects the successor binds to its attributes when it is loaded: four
\* distinct objects (a string and three functions), named by identity
InitialAgnt ==
  [n \in AgntNames |->
     CASE n = "__version__" -> 1
       [] n = "get_binary_path" -> 2
       [] n = "run" -> 3
       [] n = "main" -> 4]

\* object identities: the initial ones and one new object per rebinding
Objs == 1..(Cardinality(AgntNames) + MaxRebinds)
Unbound == 0

\* actions of the host's warning filter for DeprecationWarning
Filters == {"ignore", "default", "always", "error"}

\* what the successor's entry point can do when called
RetVals == {"None", "1"}
Excs == {"SystemExit", "ImportError"}
NoOutcome == [kind |-> "none", val |-> "none"]
SuccResults == [kind : {"return"}, val : RetVals] \cup [kind : {"raise"}, val : Excs]

\* ------------------------------------------------------------ the program
\* variant: the successor is loaded before the warning is issued
module_body_import_first == <<"from_import", "warn", "define">>

\* statements of the module body, in source order
module_body == <<"warn", "from_import", "define">>

\* variant: the successor's entry point is resolved before the notice
main_body_resolve_first == <<"resolve", "print", "call">>

\* variant: the notice is left out
main_body_no_notice == <<"resolve", "call">>

\* statements of main(), in source order
main_body == <<"print", "resolve", "call">>

\* variant: the warning is raised whenever it would be shown
WarnOutcome_raising(f, registered) ==
  CASE f = "error" -> "raise"
    [] f = "ignore" -> "suppressed"
    [] f = "always" -> "raise"
    [] f = "default" -> IF registered THEN "suppressed" ELSE "raise"

\* warnings.warn(msg, DeprecationWarning, stacklevel=2) under the host's
\* filter; registered = the warning's key is already in the registry
WarnOutcome(f, registered) ==
  CASE f = "error" -> "raise"
    [] f = "ignore" -> "suppressed"
    [] f = "always" -> "shown"
    [] f = "default" -> IF registered THEN "suppressed" ELSE "shown"

\* variant: a failed load is swallowed (try/except ImportError: pass)
LoadFails_never(present) == FALSE

\* "from agnt import ..." fails exactly when agnt cannot be loaded
LoadFails(present) == ~present

\* variant: the shim binds a wrapper or copy, a different object
BoundValue_copy(o) == (o % Cardinality(Objs)) + 1

\* the object STORE_NAME binds for an imported attribute: the attribute itself
BoundValue(o) == o

\* variant: the shim forwards attribute lookups to agnt (module __getattr__)
ReexportView_live(s, a) == a

\* a from-import binding is a plain name in the shim's namespace: a later
\* rebinding in agnt (a) leaves the shim's bindings (s) as they are
ReexportView(s, a) == s

\* variant: the failure is caught and replaced
PropagateFailure_wrapped(e) == "RuntimeError"

\* a failure raised inside agnt_main() leaves main() as it is (no try/except)
PropagateFailure(e) == e

\* variant: return agnt_main()
MainReturnValue_forward(v) == v

\* main() has no return statement: its value is None whatever agnt_main()
\* returned
MainReturnValue(v) == "None"

\* variant: from agnt import run as agnt_main
EntryPoint_run(a) == a["run"]

\* the attribute "from agnt import main as agnt_main" reads from agnt
EntryPoint(a) == a["main"]

VARIABLES
  agntPresent,   \* the successor package can be loaded
  agnt,          \* the successor's current attributes
  nRebinds,      \* rebindings of the successor's attributes so far
  filter,        \* the host's filter action for DeprecationWarning
  registry,      \* the shim's warning is in the warning registry
  ipc,           \* position in module_body, 0 = not executing
  shimState,     \* "unloaded" | "loading" | "loaded" | "failed"
  shim,          \* the shim's bindings of the re-exported names
  mainDefined,   \* def main has been executed
  shimExc,       \* the exception the last import of the shim raised
  importLog,     \* effects of the running / last execution of the body
  nImports,      \* import statements executed so far
  mpc,           \* position in main_body, 0 = not executing
  agnt_main,     \* main()'s local name agnt_main
  mainLog,       \* effects of all invocations of main()
  nInv,          \* invocations of main() so far
  succOutcome,   \* what agnt.main() did in the current / last invocation
  mainOutcome    \* how the current / last invocation of main() ended

vars == <<agntPresent, agnt, nRebinds, filter, registry, ipc, shimState, shim,
          mainDefined, shimExc, importLog, nImports, mpc, agnt_main,
          mainLog, nInv, succOutcome, mainOutcome>>

hostVars == <<agntPresent, agnt, nRebinds, filter>>
importVars == <<ipc, shimState, shim, mainDefined, shimExc, importLog, nImports>>
mainVars == <<mpc, agnt_main, mainLog, nInv, succOutcome, mainOutcome>>

NoBindings == [n \in Names |-> Unbound]

Event(e, o) == [ev |-> e, inv |-> nInv, obj |-> o]

Init ==
  /\ agntPresent \in BOOLEAN
  /\ agnt = InitialAgnt
  /\ nRebinds = 0
  /\ filter \in Filters
  /\ registry = FALSE
  /\ ipc = 0
  /\ shimState = "unloaded"
  /\ shim = NoBindings
  /\ mainDefined = FALSE
  /\ shimExc = "none"
  /\ importLog = <<>>
  /\ nImports = 0
  /\ mpc = 0
  /\ agnt_main = Unbound
  /\ mainLog = <<>>
  /\ nInv = 0
  /\ succOutcome = NoOutcome
  /\ mainOutcome = NoOutcome

Idle == ipc = 0 /\ mpc = 0

\* ------------------------------------------------------- the module body
\* the statement at ipc has run without raising: go to the next one, or
\* finish the import and leave the module in sys.modules
ImportAdvance ==
  /\ ipc' = IF ipc = Len(module_body) THEN 0 ELSE ipc + 1
  /\ shimState' = IF ipc = Len(module_body) THEN "loaded" ELSE "loading"

\* the statement at ipc raised exc: the import machinery drops the partly
\* initialised module and the exception reaches the importer
ImportRaise(exc) ==
  /\ ipc' = 0
  /\ shimState' = "failed"
  /\ shimExc' = exc
  /\ shim' = NoBindings
  /\ mainDefined' = FALSE

\* "import devtool_mcp" while the shim is not in sys.modules: the body runs
ImportStart ==
  /\ Idle
  /\ shimState \in {"unloaded", "failed"}
  /\ nImports < MaxImports
  /\ nImports' = nImports + 1
  /\ ipc' = 1
  /\ shimState' = "loading"
  /\ shimExc' = "none"
  /\ importLog' = <<>>
  /\ UNCHANGED <<shim, mainDefined, registry>>
  /\ UNCHANGED hostVars
  /\ UNCHANGED mainVars

\* "import devtool_mcp" while the shim is in sys.modules: the body is not run
ImportCached ==
  /\ Idle
  /\ shimState = "loaded"
  /\ nImports < MaxImports
  /\ nImports' = nImports + 1
  /\ UNCHANGED <<ipc, shimState, shim, mainDefined, shimExc, importLog, registry>>
  /\ UNCHANGED hostVars
  /\ UNCHANGED mainVars

\* warnings.warn(..., DeprecationWarning, stacklevel=2)
ModuleWarn ==
  /\ ipc > 0
  /\ module_body[ipc] = "warn"
  /\ LET out == WarnOutcome(filter, registry) IN
       CASE out = "raise" ->
              /\ importLog' = importLog \o <<"warn_call", "warn_raise">>
              /\ ImportRaise("DeprecationWarning")
              /\ UNCHANGED registry
         [] out = "shown" ->
              /\ importLog' = importLog \o <<"warn_call", "warn_shown">>
              /\ registry' = (registry \/ filter = "default")
              /\ ImportAdvance
              /\ UNCHANGED <<shim, mainDefined, shimExc>>
         [] out = "suppressed" ->
              /\ importLog' = Append(importLog, "warn_call")
              /\ ImportAdvance
              /\ UNCHANGED <<shim, mainDefined, shimExc, registry>>
  /\ UNCHANGED nImports
  /\ UNCHANGED hostVars
  /\ UNCHANGED mainVars

\* from agnt import (__version__, get_binary_path, run)
ModuleFromImport ==
  /\ ipc > 0
  /\ module_body[ipc] = "from_import"
  /\ IF LoadFails(agntPresent)
       THEN /\ importLog' = importLog \o <<"load_attempt", "load_fail">>
            /\ ImportRaise("ImportError")
       ELSE /\ importLog' = importLog \o <<"load_attempt", "bind">>
            /\ shim' = [n \in Names |-> IF agntPresent THEN BoundValue(agnt[n]) ELSE Unbound]
            /\ ImportAdvance
            /\ UNCHANGED <<mainDefined, shimExc>>
  /\ UNCHANGED <<nImports, registry>>
  /\ UNCHANGED hostVars
  /\ UNCHANGED mainVars

\* __all__ = [...]; def main() -> None: ...
ModuleDefine ==
  /\ ipc > 0
  /\ module_body[ipc] = "define"
  /\ importLog' = Append(importLog, "define")
  /\ mainDefined' = TRUE
  /\ ImportAdvance
  /\ UNCHANGED <<shim, shimExc, nImports, registry>>
  /\ UNCHANGED hostVars
  /\ UNCHANGED mainVars

\* ------------------------------------------------------------------ main()
\* the statement at mpc has run without raising: go to the next one, or
\* fall off the end of main(), which returns its value to the caller
MainAdvance(succ) ==
  /\ mpc' = IF mpc = Len(main_body) THEN 0 ELSE mpc + 1
  /\ mainOutcome' = IF mpc = Len(main_body)
                      THEN [kind |-> "return", val |-> MainReturnValue(succ.val)]
                      ELSE mainOutcome

\* the statement at mpc raised exc, which leaves main()
MainRaise(exc) ==
  /\ mpc' = 0
  /\ mainOutcome' = [kind |-> "raise", val |-> exc]

\* a caller invokes devtool_mcp.main()
MainInvoke ==
  /\ Idle
  /\ shimState = "loaded"
  /\ mainDefined
  /\ nInv < MaxInvocations
  /\ nInv' = nInv + 1
  /\ mpc' = 1
  /\ agnt_main' = Unbound
  /\ succOutcome' = NoOutcome
  /\ mainOutcome' = NoOutcome
  /\ UNCHANGED mainLog
  /\ UNCHANGED registry
  /\ UNCHANGED hostVars
  /\ UNCHANGED importVars

\* print(<notice>, file=sys.stderr)
MainPrint ==
  /\ mpc > 0
  /\ main_body[mpc] = "print"
  /\ mainLog' = Append(mainLog, Event("notice", Unbound))
  /\ MainAdvance(succOutcome)
  /\ UNCHANGED <<agnt_main, nInv, succOutcome, registry>>
  /\ UNCHANGED hostVars
  /\ UNCHANGED importVars

\* from agnt import main as agnt_main
MainResolve ==
  /\ mpc > 0
  /\ main_body[mpc] = "resolve"
  /\ IF LoadFails(agntPresent)
       THEN /\ mainLog' = Append(mainLog, Event("resolve_fail", Unbound))
            /\ MainRaise("ImportError")
            /\ UNCHANGED agnt_main
       ELSE /\ mainLog' = Append(mainLog, Event("resolve", EntryPoint(agnt)))
            /\ agnt_main' = EntryPoint(agnt)
            /\ MainAdvance(succOutcome)
  /\ UNCHANGED <<nInv, succOutcome, registry>>
  /\ UNCHANGED hostVars
  /\ UNCHANGED importVars

\* agnt_main()
MainDelegate ==
  /\ mpc > 0
  /\ main_body[mpc] = "call"
  /\ \E r \in SuccResults :
       /\ succOutcome' = r
       /\ IF r.kind = "raise"
            THEN /\ mainLog' = mainLog \o <<Event("call", agnt_main), Event("call_raised", agnt_main)>>
                 /\ MainRaise(PropagateFailure(r.val))
            ELSE /\ mainLog' = Append(mainLog, Event("call", agnt_main))
                 /\ MainAdvance(r)
  /\ UNCHANGED <<agnt_main, nInv, registry>>
  /\ UNCHANGED hostVars
  /\ UNCHANGED importVars

\* -------------------------------------------------------------- the host
\* other code rebinds an attribute of the successor package to a new object
Rebind ==
  /\ Idle
  /\ agntPresent
  /\ nRebinds < MaxRebinds
  /\ nRebinds' = nRebinds + 1
  /\ \E n \in AgntNames :
       /\ agnt' = [agnt EXCEPT ![n] = Cardinality(AgntNames) + nRebinds + 1]
       /\ shim' = IF shimState = "loaded" THEN ReexportView(shim, [m \in Names |-> agnt'[m]]) ELSE shim
  /\ UNCHANGED <<agntPresent, filter, registry>>
  /\ UNCHANGED <<ipc, shimState, mainDefined, shimExc, importLog, nImports>>
  /\ UNCHANGED mainVars

\* the successor package becomes unavailable (uninstalled, dropped from
\* sys.modules and the path)
SuccessorRemoved ==
  /\ Idle
  /\ agntPresent
  /\ agntPresent' = FALSE
  /\ UNCHANGED <<agnt, nRebinds, filter, registry>>
  /\ UNCHANGED importVars
  /\ UNCHANGED mainVars

\* the successor package becomes available (pip install agnt)
SuccessorInstalled ==
  /\ Idle
  /\ ~agntPresent
  /\ agntPresent' = TRUE
  /\ UNCHANGED <<agnt, nRebinds, filter, registry>>
  /\ UNCHANGED importVars
  /\ UNCHANGED mainVars

Next ==
  \/ ImportStart
  \/ ImportCached
  \/ ModuleWarn
  \/ ModuleFromImport
  \/ ModuleDefine
  \/ MainInvoke
  \/ MainPrint
  \/ MainResolve
  \/ MainDelegate
  \/ Rebind
  \/ SuccessorRemoved
  \/ SuccessorInstalled

Spec == Init /\ [][Next]_vars

TypeOK ==
  /\ agntPresent \in BOOLEAN
  /\ agnt \in [AgntNames -> Objs]
  /\ nRebinds \in 0..MaxRebinds
  /\ filter \in Filters
  /\ registry \in BOOLEAN
  /\ ipc \in 0..Len(module_body)
  /\ shimState \in {"unloaded", "loading", "loaded", "failed"}
  /\ shim \in [Names -> Objs \cup {Unbound}]
  /\ mainDefined \in BOOLEAN
  /\ shimExc \in {"none", "ImportError", "DeprecationWarning"}
  /\ importLog \in Seq({"warn_call", "warn_shown", "warn_raise", "load_attempt", "load_fail", "bind", "define"})
  /\ nImports \in 0..MaxImports
  /\ mpc \in 0..Len(main_body)
  /\ agnt_main \in Objs \cup {Unbound}
  /\ nInv \in 0..MaxInvocations
  /\ succOutcome \in SuccResults \cup {NoOutcome}
  /\ mainOutcome.kind \in {"none", "return", "raise"}

\* ------------------------------------------------------------- helpers
Count(s, x) == Cardinality({i \in DOMAIN s : s[i] = x})

Kinds(s) == [i \in DOMAIN s |-> s[i].ev]

\* the events of invocation n of main(), in order
InvEvents(n) == SelectSeq(mainLog, LAMBDA e : e.inv = n)

IsPrefix(s, t) == Len(s) <= Len(t) /\ \A i \in DOMAIN s : s[i] = t[i]

\* the module body has run to its end or to an exception
BodyFinished == ipc = 0 /\ importLog # <<>>

NothingAvailable == shimState # "loaded" /\ shim = NoBindings /\ ~mainDefined

\* --------------------------------------------------------------- claims

\* C1: in every invocation of main() the notice is written to stderr before
\* agnt.main is resolved or called: every resolution (successful or not) and
\* every call in the trace is preceded, in the same invocation, by the notice.
C1_NoticeBeforeDelegation ==
  \A i \in DOMAIN mainLog :
    mainLog[i].ev \in {"resolve", "resolve_fail", "call"} =>
      \E j \in 1..(i - 1) :
        mainLog[j].ev = "notice" /\ mainLog[j].inv = mainLog[i].inv

\* C1 witness: a second invocation has written its notice and called the
\* successor.
C1_Witness ==
  /\ nInv = 2
  /\ Kinds(InvEvents(2)) = <<"notice", "resolve", "call">>

\* C2 as stated: main() returns the value agnt.main() returned.
C2_Original ==
  (mainOutcome.kind = "return" /\ succOutcome.kind = "return") =>
    mainOutcome.val = succOutcome.val

\* C2 amended: main() returns None whenever it returns, whatever value
\* agnt.main() returned; it returns exactly when agnt.main() returned.
C2_ReturnsNone ==
  /\ mainOutcome.kind = "return" =>
       (mainOutcome.val = "None" /\ succOutcome.kind = "return")
  /\ (succOutcome.kind = "return" /\ mpc = 0) => mainOutcome.kind = "return"

\* C2 witness: agnt.main() returned a value other than None and main()
\* returned.
C2_Witness ==
  /\ mainOutcome.kind = "return"
  /\ succOutcome = [kind |-> "return", val |-> "1"]

\* C3 as stated: an invocation that fails to resolve the successor raises
\* the import error and has no other effect, no notice on stderr included.
C3_Original ==
  (mpc = 0 /\ mainLog # <<>> /\ mainLog[Len(mainLog)] = Event("resolve_fail", Unbound)) =>
    /\ mainOutcome = [kind |-> "raise", val |-> "ImportError"]
    /\ Kinds(InvEvents(nInv)) = <<"resolve_fail">>

\* C3 amended: an invocation that fails to resolve the successor raises the
\* import error after the notice has been written; the successor's entry
\* point is not called and nothing else happens in that invocation.
C3_NoticeThenImportError ==
  \A n \in 1..nInv :
    (\E i \in DOMAIN InvEvents(n) : InvEvents(n)[i].ev = "resolve_fail") =>
      /\ Kinds(InvEvents(n)) = <<"notice", "resolve_fail">>
      /\ n = nInv =>
           /\ mpc = 0
           /\ mainOutcome = [kind |-> "raise", val |-> "ImportError"]
           /\ succOutcome = NoOutcome
           /\ agnt_main = Unbound

\* C3 witness: the shim is loaded, the successor has gone, and main() has
\* raised the import error.
C3_Witness ==
  /\ shimState = "loaded"
  /\ nInv > 0
  /\ mpc = 0
  /\ Kinds(InvEvents(nInv)) = <<"notice", "resolve_fail">>
  /\ mainOutcome = [kind |-> "raise", val |-> "ImportError"]

\* C4 as stated: every execution of the module body shows exactly one
\* deprecation warning, before any other effect.
C4_Original ==
  BodyFinished =>
    /\ Count(importLog, "warn_shown") = 1
    /\ importLog[1] = "warn_call"

\* C4 amended: every execution of the module body makes exactly one
\* warnings.warn call, before any other effect of the import (the load
\* attempt, the bindings, the definitions); the host's filter decides whether
\* the call shows a warning, and it shows at most one, right after the call.
C4_OneWarnCallFirst ==
  /\ importLog # <<>> => importLog[1] = "warn_call"
  /\ (ipc > 1 \/ BodyFinished) => Count(importLog, "warn_call") = 1
  /\ Count(importLog, "warn_call") <= 1
  /\ Count(importLog, "warn_shown") <= 1
  /\ \A i \in DOMAIN importLog :
       importLog[i] \in {"warn_shown", "warn_raise"} => i = 2
  /\ (BodyFinished /\ filter = "ignore") => Count(importLog, "warn_shown") = 0

\* C4 witness: an import completed under a filter that ignores the warning:
\* one warn call, nothing shown, the successor loaded afterwards.
C4_Witness ==
  /\ shimState = "loaded"
  /\ importLog = <<"warn_call", "load_attempt", "bind", "define">>

\* C5 as stated: once the shim is imported its three names always equal the
\* successor's current values.
C5_Original ==
  shimState = "loaded" => \A n \in Names : shim[n] = agnt[n]

\* C5 amended: the three names are bound when the import completes, to the
\* successor's values of that moment, and keep those values from then on; a
\* later rebinding in the successor is not reflected.
C5_BoundOnceAtImport ==
  [][shimState' = "loaded" =>
       IF shimState = "loaded"
         THEN shim' = shim
         ELSE \A n \in Names : shim'[n] = agnt[n]]_vars

\* C5 witness: the shim is loaded and one of its names differs from the
\* successor's current value.
C5_Witness ==
  /\ shimState = "loaded"
  /\ \E n \in Names : shim[n] # agnt[n]

C7_Original ==
  /\ Count(importLog, "warn_raise") = 0
  /\ shimExc # "DeprecationWarning"

\* C7 amended: under every filter except "error" the warn call does not raise
\* and the import ends as the successor's availability alone decides: loaded
\* with the names bound, or failed with the import error.  Under "error" the
\* warn call raises DeprecationWarning and the import fails before the
\* successor is loaded.
C7_WarnRaisesOnlyUnderError ==
  /\ filter # "error" =>
       /\ Count(importLog, "warn_raise") = 0
       /\ shimExc # "DeprecationWarning"
       /\ BodyFinished =>
            \/ /\ shimState = "loaded"
               /\ SelectSeq(importLog, LAMBDA e : e # "warn_shown")
                    = <<"warn_call", "load_attempt", "bind", "define">>
            \/ /\ shimState = "failed"
               /\ shimExc = "ImportError"
               /\ SelectSeq(importLog, LAMBDA e : e # "warn_shown")
                    = <<"warn_call", "load_attempt", "load_fail">>
  /\ (filter = "error" /\ BodyFinished) =>
       /\ importLog = <<"warn_call", "warn_raise">>
       /\ shimState = "failed"
       /\ shimExc = "DeprecationWarning"

\* C7 witness: the warning was shown and the import went on to completion.
C7_Witness ==
  /\ filter = "always"
  /\ shimState = "loaded"
  /\ importLog = <<"warn_call", "warn_shown", "load_attempt", "bind", "define">>

\* C8 as stated: a module body that ends while the successor is unavailable
\* has failed with the import error and made nothing available.
C8_Original ==
  [][(ipc > 0 /\ ipc' = 0 /\ ~agntPresent) =>
       (shimState' = "failed" /\ shimExc' = "ImportError" /\ NothingAvailable')]_vars

\* C8 amended: a module body that ends while the successor is unavailable has
\* failed and made nothing available; the failure is the import error of the
\* failed load, unless the host's filter is "error", where it is the
\* DeprecationWarning raised before the load was attempted.
C8_AbsentSuccessorFailsImport ==
  [][(ipc > 0 /\ ipc' = 0 /\ ~agntPresent) =>
       /\ shimState' = "failed"
       /\ NothingAvailable'
       /\ shimExc' = IF filter = "error" THEN "DeprecationWarning" ELSE "ImportError"
       /\ filter # "error" => importLog'[Len(importLog')] = "load_fail"]_vars

\* C8 witness: the load of the successor failed and the import ended with
\* the import error.
C8_Witness ==
  /\ shimState = "failed"
  /\ shimExc = "ImportError"
  /\ ~agntPresent
  /\ importLog = <<"warn_call", "load_attempt", "load_fail">>

\* C9: in the step that completes a successful import, each of the three
\* names of the shim is the very object the successor binds to that name.
C9_IdentityAtImport ==
  [][(shimState # "loaded" /\ shimState' = "loaded") =>
       \A n \in Names : shim'[n] \in Objs /\ shim'[n] = agnt'[n]]_vars

\* C9 witness: an import has completed after the successor rebound one of
\* the three names, and the shim holds the successor's objects.
C9_Witness ==
  /\ shimState = "loaded"
  /\ nInv = 0
  /\ importLog[Len(importLog)] = "define"
  /\ \E n \in Names : agnt[n] # InitialAgnt[n]
  /\ \A n \in Names : shim[n] = agnt[n]

\* the trace of every invocation that met no failure is a prefix of
\* (notice, resolve, call), the whole of it once the invocation is over, and
\* invocations do not interleave
C10_Pattern ==
  /\ \A i, j \in DOMAIN mainLog : i < j => mainLog[i].inv <= mainLog[j].inv
  /\ \A n \in 1..nInv :
       (\A i \in DOMAIN InvEvents(n) :
           InvEvents(n)[i].ev \notin {"resolve_fail", "call_raised"}) =>
         /\ IsPrefix(Kinds(InvEvents(n)), <<"notice", "resolve", "call">>)
         /\ (n < nInv \/ mpc = 0) =>
              Kinds(InvEvents(n)) = <<"notice", "resolve", "call">>

\* the object called is the successor's entry point at the time of the call
C10_CallsCurrentEntryPoint ==
  (Len(mainLog') > Len(mainLog) /\ mainLog'[Len(mainLog) + 1].ev = "call") =>
    mainLog'[Len(mainLog) + 1].obj = agnt["main"]

\* C10: main() keeps no state: k invocations with the successor available and
\* returning normally leave k repetitions of (notice, entry point resolved and
\* called once); no notice is suppressed, no call repeated or skipped, and the
\* entry point called is the successor's at the time of the invocation.
C10_StatelessLinear ==
  [](C10_Pattern) /\ [][C10_CallsCurrentEntryPoint]_vars

\* C10 witness: two invocations completed normally and called two different
\* entry points, the successor having rebound main in between.
C10_Witness ==
  /\ mpc = 0
  /\ nInv = 2
  /\ Kinds(mainLog) = <<"notice", "resolve", "call", "notice", "resolve", "call">>
  /\ mainLog[3].obj # mainLog[6].obj
  /\ mainOutcome.kind = "return"

====
